---- MODULE Spec2Model ----
(***************************************************************************)
(* Control-number allocation and repair of the document management system  *)
(* (server/lib/db.js, SQLite branch, and the HTTP handlers of              *)
(* server/index.js that drive it).                                         *)
(*                                                                         *)
(* Strings are sequences of one-character strings, so that formatting a    *)
(* control number and parsing the sequence number back out of it are       *)
(* computed as the code computes them.                                     *)
(***************************************************************************)
EXTENDS Integers, Sequences, FiniteSets, TLC

\* ------------------------------------------------------------------ bounds
\* Highest record id the model creates (ids are AUTOINCREMENT, never reused).
MaxId == 4
\* Cap on a counter value above which no further allocation is started.
MaxSeq == 3
\* Number of requests a run of Spec serves.
MaxOps == 4
\* Number of requests a run of SpecConc serves.
MaxConcOps == 2
\* Number of requests a run of SpecCreateDelete serves.
MaxCreateDeleteOps == 6
\* Number of records, and highest sequence number in their control numbers, in
\* the stores SpecValidate hands to the validator.
MaxValidateIds == 2
MaxValidateSeq == 3
\* Number of requests a run of SpecUpdate serves.
MaxUpdateOps == 3
\* Number of requests a run of SpecInputs serves.
MaxInputOps == 2
\* Number of requests a run of SpecReads serves.
MaxReadOps == 3
\* Number of requests a run of SpecFaults serves.
MaxFaultOps == 3
\* Number of concurrent request handlers in the interleaved specifications.
NumProcs == 2
\* Number of requests a run of SpecRace serves, and number of records its
\* stores start with at most.
MaxRaceOps == 3
MaxRaceRecords == 2
\* Number of reset requests a run of SpecResets serves, and number of records
\* its stores start with at most.
MaxResetOps == 2
MaxResetRecords == 2
\* Number of requests a run of SpecBackends serves.
MaxBackendOps == 3
\* Number of requests a run of SpecResetEffect serves.
MaxResetEffectOps == 3
\* Number of requests a run of SpecCreateValidate serves.
MaxCreateValidateOps == 4

\* ------------------------------------------------------- program constants
NULL == "null"
\* Two of the sections served by GET /sections.
Sections == {"INVES", "INTEL"}
\* Two calendar dates in the YYYY-MM-DD form validateDates accepts.
Dates == {"2026-02-18", "2026-02-19"}
\* The prefix getNextControlNumbers passes to formatCtrlNo.
PREFIX == <<"R", "F", "U", "4", "A">>

Chars(s) ==
  CASE s = "INVES" -> <<"I", "N", "V", "E", "S">>
    [] s = "INTEL" -> <<"I", "N", "T", "E", "L">>
    [] s = "2026-02-18" -> <<"2", "0", "2", "6", "-", "0", "2", "-", "1", "8">>
    [] s = "2026-02-19" -> <<"2", "0", "2", "6", "-", "0", "2", "-", "1", "9">>
    [] s = "18/02/2026" -> <<"1", "8", "/", "0", "2", "/", "2", "0", "2", "6">>

\* ----------------------------------------------------- string primitives
DigitChars == <<"0", "1", "2", "3", "4", "5", "6", "7", "8", "9">>

IsDigit(c) == \E i \in 1..10 : DigitChars[i] = c

DigitValue(c) == (CHOOSE i \in 1..10 : DigitChars[i] = c) - 1

RECURSIVE StringOfNumber(_)
\* String(seq) for a non-negative integer.
StringOfNumber(n) ==
  IF n < 10 THEN <<DigitChars[n + 1]>>
  ELSE StringOfNumber(n \div 10) \o <<DigitChars[(n % 10) + 1]>>

RECURSIVE parseInt(_)
\* parseInt(digits, 10) for a non-empty run of decimal digits.
parseInt(digits) ==
  IF Len(digits) = 0 THEN 0
  ELSE 10 * parseInt(SubSeq(digits, 1, Len(digits) - 1))
       + DigitValue(digits[Len(digits)])

\* str.padStart(len, ch)
padStart(str, len, ch) ==
  IF Len(str) >= len THEN str
  ELSE [i \in 1..(len - Len(str)) |-> ch] \o str

\* Length of the run of digits that ends at position `last` of str.
DigitRunEndingAt(str, last) ==
  CHOOSE k \in 0..last :
    /\ \A i \in (last - k + 1)..last : IsDigit(str[i])
    /\ (k = last \/ ~IsDigit(str[last - k]))

\* Whether str holds the characters of lit ending at position `last`.
EndsWithAt(str, lit, last) ==
  /\ last >= Len(lit)
  /\ SubSeq(str, last - Len(lit) + 1, last) = lit

\* ------------------------------------------------------------- formatter
formatCtrlNo(prefix, section, dateStr, seq) ==
  LET date == SubSeq(SelectSeq(dateStr, LAMBDA c : c # "-"), 3,
                     Len(SelectSeq(dateStr, LAMBDA c : c # "-")))
      padded == padStart(StringOfNumber(seq), 2, "0")
      suffix == IF section # NULL THEN <<"-">> \o Chars(section)
                ELSE <<"-", "M", "C">>
  IN prefix \o suffix \o <<"-">> \o date \o <<"-">> \o padded

\* --------------------------------------------------------------- parsers
\* ctrlNo.match(/-(\d+)$/): the sequence number, or -1 when there is no match.
matchTrailingSeq(ctrlNo) ==
  LET k == DigitRunEndingAt(ctrlNo, Len(ctrlNo))
  IN IF k >= 1 /\ EndsWithAt(ctrlNo, <<"-">>, Len(ctrlNo) - k)
     THEN parseInt(SubSeq(ctrlNo, Len(ctrlNo) - k + 1, Len(ctrlNo)))
     ELSE -1

\* ctrlNo.match(/-(\d+)-(\d+)$/): group 2 as a number, or -1.
matchDateSeq(ctrlNo) ==
  LET n == Len(ctrlNo)
      k2 == DigitRunEndingAt(ctrlNo, n)
      k1 == IF k2 >= 1 /\ EndsWithAt(ctrlNo, <<"-">>, n - k2)
            THEN DigitRunEndingAt(ctrlNo, n - k2 - 1) ELSE 0
  IN IF k1 >= 1 /\ EndsWithAt(ctrlNo, <<"-">>, n - k2 - 1 - k1)
     THEN parseInt(SubSeq(ctrlNo, n - k2 + 1, n))
     ELSE -1

\* ctrlNo.match(/-MC-(\d+)-(\d+)$/): group 2 as a number, or -1.
matchMCDateSeq(ctrlNo) ==
  LET n == Len(ctrlNo)
      k2 == DigitRunEndingAt(ctrlNo, n)
      k1 == IF k2 >= 1 /\ EndsWithAt(ctrlNo, <<"-">>, n - k2)
            THEN DigitRunEndingAt(ctrlNo, n - k2 - 1) ELSE 0
  IN IF k1 >= 1 /\ EndsWithAt(ctrlNo, <<"-", "M", "C", "-">>, n - k2 - 1 - k1)
     THEN parseInt(SubSeq(ctrlNo, n - k2 + 1, n))
     ELSE -1

\* ------------------------------------------------------------------ state
VARIABLES
  records,      \* rows of table records: [id, section, dateReceived, mcCtrlNo, sectionCtrlNo]
  counters,     \* rows of table counters, in id order: [scope, section, currentNumber, lastDateUsed]
  nextId,       \* next AUTOINCREMENT id of table records
  lastOp,       \* the last request served and what it answered
  prevOp,       \* the request served before lastOp, when it was a delete or a reset
  run,          \* the requests served so far, while they are all of one kind
                \* for one (section, dateReceived), or allocations followed by
                \* create-record requests (kind "abandoned")
  budget,       \* number of requests the run may still serve
  emptied,      \* the (section, dateReceived) partitions whose records have all
                \* been deleted through delete requests, and not refilled since
  procs         \* the request handlers in flight (interleaved specification)

vars == <<records, counters, nextId, lastOp, prevOp, run, budget, emptied, procs>>

Procs == 1..NumProcs

\* A counter row as a request found it: NoRow when there was none.
NoRow == [currentNumber |-> -1, lastDateUsed |-> NULL]

\* What a call of getNextCounter did: whether it threw, the number it returned
\* and the counter row it left.
NoResult == [threw |-> FALSE, seq |-> 0, row |-> NoRow]

NoOp == [op |-> "none", section |-> NULL, dateReceived |-> NULL, id |-> 0,
         mcSeq |-> 0, sectionSeq |-> 0, highestMC |-> 0, highestSection |-> 0,
         preMC |-> NoRow, preSection |-> NoRow, countersChanged |-> FALSE,
         wasEmptied |-> FALSE, failed |-> "none", ok |-> FALSE,
         warning |-> FALSE, recordsChanged |-> FALSE,
         duplicates |-> <<>>, issues |-> <<>>, hasProblems |-> FALSE,
         status |-> 0, preMcCtrlNo |-> <<>>, preSectionCtrlNo |-> <<>>,
         sqlite |-> NoResult, postgres |-> NoResult, preCounters |-> <<>>]

NoRun == [kind |-> "none", section |-> NULL, dateReceived |-> NULL, allocs |-> <<>>]
MixedRun == [NoRun EXCEPT !.kind = "mixed"]

\* A handler's locals: the request (op, reqSection, dateReceived), the
\* getNextCounter call it is in (scope, section), the row that call read
\* (existing: its id, 0 for undefined, with currentNumber and lastDateUsed),
\* highestActual, and the numbers returned so far (0: not yet returned); for a
\* delete request the id of its record, and for a reset the maxima it found
\* and table counters as it was when the request arrived.
IdleProc == [pc |-> "idle", op |-> "none", reqSection |-> NULL, scope |-> NULL,
             section |-> NULL, dateReceived |-> NULL, existing |-> 0,
             currentNumber |-> 0, lastDateUsed |-> NULL, highestActual |-> 0,
             mcSeq |-> 0, sectionSeq |-> 0, concurrent |-> {},
             id |-> 0, highestMC |-> 0, highestSection |-> 0,
             startCounters |-> <<>>]

\* ---------------------------------------------------------- counter store
\* SELECT * FROM counters WHERE scope = ? AND section IS ?  (sqliteDb.get: the
\* first matching row); the row's id, or 0 when there is none.
selectCounter(ctrs, scope, section) ==
  LET ids == {i \in 1..Len(ctrs) :
                ctrs[i].scope = scope /\ ctrs[i].section = section}
  IN IF ids = {} THEN 0 ELSE CHOOSE i \in ids : \A j \in ids : i <= j

\* SELECT mcCtrlNo, sectionCtrlNo FROM records WHERE section = ? AND dateReceived = ?
selectRecords(recs, section, dateReceived) ==
  {r \in recs : r.section = section /\ r.dateReceived = dateReceived}

Max0(S) == IF S = {} THEN 0 ELSE CHOOSE x \in S : \A y \in S : y <= x

\* The forEach of getNextCounter: highest sequence matched by /-(\d+)$/.
highestActual(recs, scope, section, dateReceived) ==
  Max0({matchTrailingSeq(IF scope = "MC" THEN r.mcCtrlNo ELSE r.sectionCtrlNo) :
          r \in selectRecords(recs, section, dateReceived)} \cap Nat)

\* The guard of the verification block of getNextCounter.
verifyCounter(ctrs, id, section, dateReceived) ==
  /\ id # 0
  /\ ~(dateReceived # NULL /\ ctrs[id].lastDateUsed # dateReceived)
  /\ section # NULL
  /\ dateReceived # NULL

\* A base that carries the count over to a new date.
baseNumberKeepingCount(dateChanged, currentNumber) == currentNumber

\* const baseNumber = dateChanged ? 0 : existing.currentNumber || 0
baseNumber(dateChanged, currentNumber) ==
  IF dateChanged THEN 0 ELSE currentNumber

\* A first row that starts at 0 although 1 is handed out.
newCounterRowAtZero(scope, section, dateReceived) ==
  [scope |-> scope, section |-> section, currentNumber |-> 0,
   lastDateUsed |-> dateReceived]

\* INSERT INTO counters (scope, section, currentNumber, lastDateUsed) VALUES (?, ?, 1, ?)
newCounterRow(scope, section, dateReceived) ==
  [scope |-> scope, section |-> section, currentNumber |-> 1,
   lastDateUsed |-> dateReceived]

\* getNextCounter, SQLite branch, run without interruption.
getNextCounter(ctrs, recs, scope, section, dateReceived) ==
  LET id == selectCounter(ctrs, scope, section)
      dateChanged == dateReceived # NULL /\ id # 0
                     /\ ctrs[id].lastDateUsed # dateReceived
      highest == highestActual(recs, scope, section, dateReceived)
  IN IF verifyCounter(ctrs, id, section, dateReceived)
        /\ ctrs[id].currentNumber > highest
     THEN [seq |-> highest + 1,
           counters |-> [ctrs EXCEPT ![id].currentNumber = highest]]
     ELSE IF id = 0
     THEN [seq |-> 1,
           counters |-> Append(ctrs, newCounterRow(scope, section, dateReceived))]
     ELSE LET next == baseNumber(dateChanged, ctrs[id].currentNumber) + 1
          IN [seq |-> next,
              counters |-> [ctrs EXCEPT ![id].currentNumber = next,
                                        ![id].lastDateUsed =
                                          IF dateReceived # NULL THEN dateReceived
                                          ELSE @]]

\* peekNextCounter(existing, dateReceived); id is the row read, 0 for undefined.
peekNextCounter(ctrs, id, dateReceived) ==
  IF id = 0 THEN 1
  ELSE LET dateChanged == dateReceived # NULL /\ ctrs[id].lastDateUsed # dateReceived
           base == IF dateChanged THEN 0 ELSE ctrs[id].currentNumber
       IN base + 1

\* A preview that creates the missing counter row.
getNextCounterPreviewInserting(ctrs, recs, scope, section, dateReceived) ==
  LET id == selectCounter(ctrs, scope, section)
  IN [seq |-> peekNextCounter(ctrs, id, dateReceived),
      counters |-> IF id = 0
                   THEN Append(ctrs, newCounterRow(scope, section, dateReceived))
                   ELSE ctrs]

\* getNextCounterPreview, SQLite branch: one SELECT, then peekNextCounter.
getNextCounterPreview(ctrs, recs, scope, section, dateReceived) ==
  [seq |-> peekNextCounter(ctrs, selectCounter(ctrs, scope, section), dateReceived),
   counters |-> ctrs]

\* getNextControlNumbers(section, dateReceived, preview)
getNextControlNumbers(ctrs, recs, section, dateReceived, preview) ==
  LET getCounter(c, scope, sec) ==
        IF preview THEN getNextCounterPreview(c, recs, scope, sec, dateReceived)
        ELSE getNextCounter(c, recs, scope, sec, dateReceived)
      mc == getCounter(ctrs, "MC", NULL)
      sec == getCounter(mc.counters, "SECTION", section)
  IN [mcSeq |-> mc.seq, sectionSeq |-> sec.seq, counters |-> sec.counters,
      mcCtrlNo |-> formatCtrlNo(PREFIX, NULL, Chars(dateReceived), mc.seq),
      sectionCtrlNo |-> formatCtrlNo(PREFIX, section, Chars(dateReceived), sec.seq)]

\* Maxima taken over the records of the section whatever their date.
highestOfEveryDate(recs, section, dateReceived) ==
  LET rows == {r \in recs : r.section = section}
  IN [highestMC |-> Max0({matchMCDateSeq(r.mcCtrlNo) : r \in rows} \cap Nat),
      highestSection |-> Max0({matchDateSeq(r.sectionCtrlNo) : r \in rows} \cap Nat)]

\* The maxima resetCountersForSection extracts from the remaining records.
highestOf(recs, section, dateReceived) ==
  LET rows == selectRecords(recs, section, dateReceived)
  IN [highestMC |-> Max0({matchMCDateSeq(r.mcCtrlNo) : r \in rows} \cap Nat),
      highestSection |-> Max0({matchDateSeq(r.sectionCtrlNo) : r \in rows} \cap Nat)]

\* A reset that adds the maxima to the counters instead of overwriting them.
resetCountersAdding(ctrs, recs, section, dateReceived) ==
  LET h == highestOf(recs, section, dateReceived)
  IN [highestMC |-> h.highestMC, highestSection |-> h.highestSection,
      counters |-> [i \in 1..Len(ctrs) |->
         IF ctrs[i].scope = "MC" /\ ctrs[i].section = NULL
         THEN [ctrs[i] EXCEPT !.currentNumber = @ + h.highestMC]
         ELSE IF ctrs[i].scope = "SECTION" /\ ctrs[i].section = section
         THEN [ctrs[i] EXCEPT !.currentNumber = @ + h.highestSection]
         ELSE ctrs[i]]]

\* resetCountersForSection, SQLite branch, run without interruption.
resetCountersForSection(ctrs, recs, section, dateReceived) ==
  LET h == highestOf(recs, section, dateReceived)
  IN [highestMC |-> h.highestMC, highestSection |-> h.highestSection,
      counters |-> [i \in 1..Len(ctrs) |->
         IF ctrs[i].scope = "MC" /\ ctrs[i].section = NULL
         THEN [ctrs[i] EXCEPT !.currentNumber = h.highestMC]
         ELSE IF ctrs[i].scope = "SECTION" /\ ctrs[i].section = section
         THEN [ctrs[i] EXCEPT !.currentNumber = h.highestSection]
         ELSE ctrs[i]]]

\* /^\d{4}-\d{2}-\d{2}$/.test(str)
matchesDatePattern(str) ==
  /\ Len(str) = 10
  /\ \A i \in 1..10 : IF i \in {5, 8} THEN str[i] = "-" ELSE IsDigit(str[i])

\* validateDates(payload), for the dateReceived of the payload: whether it
\* reports an error.
validateDates(dateReceived) ==
  dateReceived # NULL /\ ~matchesDatePattern(Chars(dateReceived))

\* -------------------------------------------------- requests, one at a time
\* The counter row for (scope, section) as currentNumber and lastDateUsed.
rowOf(ctrs, scope, section) ==
  LET id == selectCounter(ctrs, scope, section)
  IN IF id = 0 THEN NoRow
     ELSE [currentNumber |-> ctrs[id].currentNumber,
           lastDateUsed |-> ctrs[id].lastDateUsed]

\* What a request leaves in lastOp whatever it is.
Served(op, section, dateReceived) ==
  [NoOp EXCEPT !.op = op, !.section = section, !.dateReceived = dateReceived,
               !.status = 200,
               !.preMC = rowOf(counters, "MC", NULL),
               !.preSection = rowOf(counters, "SECTION", section),
               !.countersChanged = (counters' # counters),
               !.recordsChanged = (records' # records),
               !.wasEmptied = (<<section, dateReceived>> \in emptied)]

Remember(op, section, dateReceived) ==
  /\ budget > 0
  /\ budget' = budget - 1
  /\ emptied' = IF op = "delete"
                   /\ selectRecords(records', section, dateReceived) = {}
                THEN emptied \cup {<<section, dateReceived>>}
                ELSE IF op = "create" /\ lastOp'.failed = "none"
                        /\ lastOp'.status = 200
                THEN emptied \ {<<section, dateReceived>>}
                ELSE emptied
  /\ prevOp' = IF lastOp.op \in {"delete", "reset", "preview"}
                  \/ lastOp.failed # "none"
               THEN [NoOp EXCEPT !.op = lastOp.op, !.section = lastOp.section,
                                 !.dateReceived = lastOp.dateReceived,
                                 !.highestMC = lastOp.highestMC,
                                 !.highestSection = lastOp.highestSection,
                                 !.failed = lastOp.failed,
                                 !.mcSeq = IF lastOp.op = "preview"
                                           THEN lastOp.mcSeq ELSE 0,
                                 !.sectionSeq = IF lastOp.op = "preview"
                                                THEN lastOp.sectionSeq ELSE 0]
               ELSE NoOp
  /\ run' = IF op \in {"allocate", "create"}
               /\ lastOp'.failed = "none"
               /\ lastOp'.status = 200
               /\ \/ run.kind = "none"
                  \/ /\ run.kind = op
                     /\ run.section = section
                     /\ run.dateReceived = dateReceived
            THEN [kind |-> op, section |-> section, dateReceived |-> dateReceived,
                  allocs |-> IF op = "allocate"
                             THEN Append(run.allocs,
                                         <<lastOp'.mcSeq, lastOp'.sectionSeq>>)
                             ELSE <<>>]
            ELSE IF op = "create"
                    /\ lastOp'.failed = "none"
                    /\ lastOp'.status = 200
                    /\ run.kind \in {"allocate", "abandoned"}
                    /\ run.section = section
                    /\ run.dateReceived = dateReceived
            THEN [kind |-> "abandoned", section |-> section,
                  dateReceived |-> dateReceived, allocs |-> <<>>]
            ELSE MixedRun

BelowCap(section) ==
  \A i \in 1..Len(counters) :
    (counters[i].section \in {NULL, section}) => counters[i].currentNumber < MaxSeq

\* A handler that tests only dateReceived.
rejectsInputWithoutDate(section, dateReceived) == dateReceived = NULL

\* if (!section) return res.status(400)...; if (!dateReceived) return res.status(400)...
rejectsInput(section, dateReceived) == section = NULL \/ dateReceived = NULL

\* return res.status(400).json({ error }): the request ends before any
\* statement reaches the database.
Reject(op, section, dateReceived) ==
  /\ UNCHANGED <<records, counters, nextId, procs>>
  /\ lastOp' = [Served(op, section, dateReceived) EXCEPT !.status = 400]
  /\ Remember(op, section, dateReceived)

\* POST /control-numbers/next
AllocateNext(section, dateReceived) ==
  IF rejectsInput(section, dateReceived)
  THEN Reject("allocate", section, dateReceived)
  ELSE /\ UNCHANGED <<records, nextId, procs>>
       /\ BelowCap(section)
       /\ LET got == getNextControlNumbers(counters, records, section,
                                           dateReceived, FALSE)
          IN /\ counters' = got.counters
             /\ lastOp' = [Served("allocate", section, dateReceived) EXCEPT
                             !.ok = TRUE,
                             !.mcSeq = got.mcSeq, !.sectionSeq = got.sectionSeq]
       /\ Remember("allocate", section, dateReceived)

\* POST /records.  failed names the await that throws, if any: "section" is the
\* getNextCounter call for the section scope (the office-wide counter is
\* already advanced), "record" is db.createRecord (both counters are advanced);
\* the request then ends without a record.
CreateRecord(section, dateReceived, failed) ==
  IF rejectsInput(section, dateReceived) \/ validateDates(dateReceived)
  THEN Reject("create", section, dateReceived)
  ELSE
  /\ nextId <= MaxId
  /\ LET mc == getNextCounter(counters, records, "MC", NULL, dateReceived)
         got == getNextControlNumbers(counters, records, section, dateReceived, FALSE)
     IN IF failed = "none"
        THEN /\ counters' = got.counters
             /\ records' = records \cup
                  {[id |-> nextId, section |-> section, dateReceived |-> dateReceived,
                    mcCtrlNo |-> got.mcCtrlNo, sectionCtrlNo |-> got.sectionCtrlNo]}
             /\ nextId' = nextId + 1
             /\ lastOp' = [Served("create", section, dateReceived) EXCEPT
                             !.id = nextId, !.ok = TRUE,
                             !.mcSeq = got.mcSeq, !.sectionSeq = got.sectionSeq]
        ELSE /\ counters' = IF failed = "section" THEN mc.counters ELSE got.counters
             /\ UNCHANGED <<records, nextId>>
             /\ lastOp' = [Served("create", section, dateReceived) EXCEPT
                             !.failed = failed]
  /\ UNCHANGED procs
  /\ Remember("create", section, dateReceived)

\* db.deleteRecord: DELETE FROM records WHERE id = ?
deleteRecord(recs, id) == {r \in recs : r.id # id}

\* resetCountersForSection when the await named by failed throws: "select" is
\* the SELECT of the records, "updateSection" the UPDATE of the section row
\* (the office-wide row is already written); otherwise it runs to its end.
resetInterrupted(ctrs, recs, section, dateReceived, failed) ==
  LET reset == resetCountersForSection(ctrs, recs, section, dateReceived).counters
  IN IF failed = "select" THEN ctrs
     ELSE IF failed = "updateSection"
     THEN [i \in 1..Len(ctrs) |->
             IF ctrs[i].scope = "MC" /\ ctrs[i].section = NULL THEN reset[i]
             ELSE ctrs[i]]
     ELSE reset

\* A delete request that reports the failure of its repair as its own.
deleteResponseFailing(failed) ==
  [ok |-> failed = "none", warning |-> failed # "none"]

\* The two answers of DELETE /records/:id once the record is deleted:
\* { ok: true, countersReset, validation } and, from the catch block,
\* { ok: true, warning }.
deleteResponse(failed) ==
  [ok |-> TRUE, warning |-> failed # "none"]

\* DELETE /records/:id for a stored record: deleteRecord, then
\* resetCountersForSection and validateControlNumbers inside try/catch.  failed
\* names the await of the repair that throws, if any ("validate" is
\* validateControlNumbers).
DeleteRecord(id, failed) ==
  \E record \in records :
    /\ record.id = id
    /\ records' = deleteRecord(records, id)
    /\ LET reset == resetCountersForSection(counters, records', record.section,
                                            record.dateReceived)
           response == deleteResponse(failed)
       IN /\ counters' = resetInterrupted(counters, records', record.section,
                                          record.dateReceived, failed)
          /\ lastOp' = [Served("delete", record.section, record.dateReceived) EXCEPT
                          !.id = id,
                          !.failed = failed,
                          !.ok = response.ok,
                          !.warning = response.warning,
                          !.highestMC = IF failed = "none" THEN reset.highestMC ELSE 0,
                          !.highestSection =
                            IF failed = "none" THEN reset.highestSection ELSE 0]
    /\ UNCHANGED <<nextId, procs>>
    /\ Remember("delete", record.section, record.dateReceived)

\* POST /records/reset-counters.  The validation the handler adds to its
\* answer reads the records and writes nothing.
ResetCounters(section, dateReceived) ==
  IF rejectsInput(section, dateReceived)
  THEN Reject("reset", section, dateReceived)
  ELSE /\ UNCHANGED <<records, nextId, procs>>
       /\ LET reset == resetCountersForSection(counters, records, section,
                                               dateReceived)
          IN /\ counters' = reset.counters
             /\ lastOp' = [Served("reset", section, dateReceived) EXCEPT
                             !.ok = TRUE,
                             !.preCounters = counters,
                             !.highestMC = reset.highestMC,
                             !.highestSection = reset.highestSection]
       /\ Remember("reset", section, dateReceived)

\* ------------------------------------------------------------- validator
\* The rows of SELECT ... ORDER BY id, as a sequence.
RECURSIVE orderById(_)
orderById(rows) ==
  IF rows = {} THEN <<>>
  ELSE LET first == CHOOSE r \in rows : \A x \in rows : r.id <= x.id
       IN <<first>> \o orderById(rows \ {first})

\* records.forEach of validateControlNumbers from row i on: a row whose control
\* number is already in the Set of its scope adds one entry to duplicates.
RECURSIVE scanDuplicates(_, _, _, _, _)
scanDuplicates(rows, i, mcNumbers, sectionNumbers, duplicates) ==
  IF i > Len(rows)
  THEN [mcNumbers |-> mcNumbers, sectionNumbers |-> sectionNumbers,
        duplicates |-> duplicates]
  ELSE LET record == rows[i]
           mcEntry == IF record.mcCtrlNo \in mcNumbers
                      THEN <<[type |-> "MC", controlNumber |-> record.mcCtrlNo,
                              recordId |-> record.id]>>
                      ELSE <<>>
           sectionEntry == IF record.sectionCtrlNo \in sectionNumbers
                           THEN <<[type |-> "SECTION",
                                   controlNumber |-> record.sectionCtrlNo,
                                   recordId |-> record.id]>>
                           ELSE <<>>
       IN scanDuplicates(rows, i + 1, mcNumbers \cup {record.mcCtrlNo},
                         sectionNumbers \cup {record.sectionCtrlNo},
                         duplicates \o mcEntry \o sectionEntry)

\* n copies of v.
Repeat(v, n) == [k \in 1..n |-> v]

\* extractSequence(controlNumber, pattern) with the pattern of the scope; -1
\* stands for null.
extractSequence(controlNumber, type) ==
  IF type = "MC" THEN matchMCDateSeq(controlNumber)
  ELSE matchDateSeq(controlNumber)

\* Array.from(numbers).map(extractSequence).filter(n => n !== null).sort(...),
\* listing the values from `from` up.
RECURSIVE sortedSequences(_, _, _)
sortedSequences(numbers, type, from) ==
  LET values == {extractSequence(cn, type) : cn \in numbers} \cap Nat
  IN IF \A v \in values : v < from THEN <<>>
     ELSE LET least == CHOOSE v \in values : v >= from /\
                         \A w \in values : w >= from => v <= w
          IN Repeat(least, Cardinality({cn \in numbers :
                                          extractSequence(cn, type) = least}))
             \o sortedSequences(numbers, type, least + 1)

\* A gap scan that also counts the numbers below the first one as missing.
RECURSIVE findGapsFromOne(_, _, _)
findGapsFromOne(type, sequences, i) ==
  IF i >= Len(sequences)
  THEN IF Len(sequences) = 0 THEN <<>>
       ELSE [k \in 1..(sequences[1] - 1) |-> [type |-> type, missing |-> k]]
  ELSE [k \in 1..(sequences[i + 1] - sequences[i] - 1) |->
          [type |-> type, missing |-> sequences[i] + k]]
       \o findGapsFromOne(type, sequences, i + 1)

\* The gap loop of validateControlNumbers from index i on (1-based): one issue
\* { type, message: `Missing control number sequence: ${missing}` } for every
\* missing between sequences[i] and sequences[i + 1]; the issue is kept as the
\* number its message names.
RECURSIVE findGaps(_, _, _)
findGaps(type, sequences, i) ==
  IF i >= Len(sequences) THEN <<>>
  ELSE (IF sequences[i + 1] - sequences[i] > 1
        THEN [k \in 1..(sequences[i + 1] - sequences[i] - 1) |->
                [type |-> type, missing |-> sequences[i] + k]]
        ELSE <<>>)
       \o findGaps(type, sequences, i + 1)

\* validateControlNumbers(section, dateReceived)
validateControlNumbers(recs, section, dateReceived) ==
  LET rows == orderById(selectRecords(recs, section, dateReceived))
      scan == scanDuplicates(rows, 1, {}, {}, <<>>)
      mcSequences == sortedSequences(scan.mcNumbers, "MC", 0)
      sectionSequences == sortedSequences(scan.sectionNumbers, "SECTION", 0)
      issues == findGaps("MC", mcSequences, 1)
                \o findGaps("SECTION", sectionSequences, 1)
  IN [duplicates |-> scan.duplicates, issues |-> issues,
      hasProblems |-> (Len(scan.duplicates) > 0 \/ Len(issues) > 0)]

\* POST /control-numbers/preview
PreviewNext(section, dateReceived) ==
  IF rejectsInput(section, dateReceived)
  THEN Reject("preview", section, dateReceived)
  ELSE /\ UNCHANGED <<records, nextId, procs>>
       /\ LET got == getNextControlNumbers(counters, records, section,
                                           dateReceived, TRUE)
          IN /\ counters' = got.counters
             /\ lastOp' = [Served("preview", section, dateReceived) EXCEPT
                             !.ok = TRUE,
                             !.mcSeq = got.mcSeq, !.sectionSeq = got.sectionSeq]
       /\ Remember("preview", section, dateReceived)

\* GET /records/validate-control-numbers
ValidateControlNumbers(section, dateReceived) ==
  IF rejectsInput(section, dateReceived)
  THEN Reject("validate", section, dateReceived)
  ELSE /\ UNCHANGED <<records, counters, nextId, procs>>
       /\ LET validation == validateControlNumbers(records, section, dateReceived)
          IN lastOp' = [Served("validate", section, dateReceived) EXCEPT
                          !.ok = TRUE,
                          !.duplicates = validation.duplicates,
                          !.issues = validation.issues,
                          !.hasProblems = validation.hasProblems]
       /\ Remember("validate", section, dateReceived)

\* --------------------------------------------------------------- update
\* payload.field ?? current.field
Coalesce(value, current) == IF value # NULL THEN value ELSE current

\* updateRecord(id, payload): the row the UPDATE writes.
updateRecord(current, payload) ==
  [id |-> current.id,
   mcCtrlNo |-> Coalesce(payload.mcCtrlNo, current.mcCtrlNo),
   sectionCtrlNo |-> Coalesce(payload.sectionCtrlNo, current.sectionCtrlNo),
   section |-> Coalesce(payload.section, current.section),
   dateReceived |-> Coalesce(payload.dateReceived, current.dateReceived)]

\* A date string validateDates rejects.
MalformedDate == "18/02/2026"

\* The bodies of PUT /records/:id: each field is absent (NULL) or given; a
\* control number, when given, is one the formatter could have produced.
Payloads ==
  [mcCtrlNo : {NULL, formatCtrlNo(PREFIX, NULL, Chars("2026-02-18"), 1)},
   sectionCtrlNo : {NULL, formatCtrlNo(PREFIX, "INVES", Chars("2026-02-18"), 1)},
   section : Sections \cup {NULL},
   dateReceived : Dates \cup {NULL, MalformedDate}]

\* PUT /records/:id for a stored record.
UpdateRecord(id, payload) ==
  \E current \in records :
    /\ current.id = id
    /\ records' = IF validateDates(payload.dateReceived) THEN records
                  ELSE (records \ {current}) \cup {updateRecord(current, payload)}
    /\ UNCHANGED <<counters, nextId, procs>>
    /\ lastOp' = [Served("update", current.section, current.dateReceived) EXCEPT
                    !.id = id,
                    !.status = IF validateDates(payload.dateReceived)
                               THEN 400 ELSE 200,
                    !.ok = ~validateDates(payload.dateReceived),
                    !.preMcCtrlNo = current.mcCtrlNo,
                    !.preSectionCtrlNo = current.sectionCtrlNo]
    /\ Remember("update", current.section, current.dateReceived)

\* ------------------------------------------------- the two storage engines
\* Whether a statement that names a column in double quotes with capitals
\* ("mcCtrlNo", "dateReceived", "currentNumber") finds it.  initDb creates the
\* PostgreSQL tables with the column names unquoted, which PostgreSQL stores in
\* lower case, so the quoted names match no column and the statement is
\* rejected.
quotedColumnExists == FALSE

\* getNextCounter, PostgreSQL branch, run without interruption.
getNextCounterPostgres(ctrs, recs, scope, section, dateReceived) ==
  LET id == selectCounter(ctrs, scope, section)
      dateChanged == dateReceived # NULL /\ id # 0
                     /\ ctrs[id].lastDateUsed # dateReceived
      highest == highestActual(recs, scope, section, dateReceived)
  IN IF verifyCounter(ctrs, id, section, dateReceived) /\ ~quotedColumnExists
     THEN [threw |-> TRUE, seq |-> 0, counters |-> ctrs]
     ELSE IF verifyCounter(ctrs, id, section, dateReceived)
             /\ ctrs[id].currentNumber > highest
     THEN [threw |-> FALSE, seq |-> highest + 1,
           counters |-> [ctrs EXCEPT ![id].currentNumber = highest + 1,
                                     ![id].lastDateUsed = dateReceived]]
     ELSE IF id = 0
     THEN [threw |-> FALSE, seq |-> 1,
           counters |-> Append(ctrs, newCounterRow(scope, section, dateReceived))]
     ELSE LET next == baseNumber(dateChanged, ctrs[id].currentNumber) + 1
          IN [threw |-> FALSE, seq |-> next,
              counters |-> [ctrs EXCEPT ![id].currentNumber = next,
                                        ![id].lastDateUsed =
                                          IF dateReceived # NULL THEN dateReceived
                                          ELSE @]]

\* getNextCounter({ scope, section, dateReceived }) on the store as it is, by
\* the branch of each engine; the store is left as it was.
CompareBackends(scope, section, dateReceived) ==
  /\ UNCHANGED <<records, counters, nextId, procs>>
  /\ LET lite == getNextCounter(counters, records, scope, section, dateReceived)
         pg == getNextCounterPostgres(counters, records, scope, section,
                                      dateReceived)
     IN lastOp' = [Served("getNextCounter", section, dateReceived) EXCEPT
                     !.sqlite = [threw |-> FALSE, seq |-> lite.seq,
                                 row |-> rowOf(lite.counters, scope, section)],
                     !.postgres = [threw |-> pg.threw, seq |-> pg.seq,
                                   row |-> rowOf(pg.counters, scope, section)]]
  /\ Remember("getNextCounter", section, dateReceived)

EmptyStore ==
  /\ records = {}
  /\ counters = <<>>
  /\ nextId = 1
  /\ lastOp = NoOp
  /\ prevOp = NoOp
  /\ run = NoRun
  /\ emptied = {}
  /\ procs = [p \in Procs |-> IdleProc]

Init == EmptyStore /\ budget = MaxOps

Next ==
  \/ \E section \in Sections, dateReceived \in Dates :
       AllocateNext(section, dateReceived)
  \/ \E section \in Sections, dateReceived \in Dates :
       CreateRecord(section, dateReceived, "none")
  \/ \E id \in 1..MaxId : DeleteRecord(id, "none")
  \/ \E section \in Sections, dateReceived \in Dates :
       ResetCounters(section, dateReceived)

Spec == Init /\ [][Next]_vars

\* Runs of create-record and delete-record requests only.
InitCreateDelete == EmptyStore /\ budget = MaxCreateDeleteOps

NextCreateDelete ==
  \/ \E section \in Sections, dateReceived \in Dates :
       CreateRecord(section, dateReceived, "none")
  \/ \E id \in 1..MaxId : DeleteRecord(id, "none")

SpecCreateDelete == InitCreateDelete /\ [][NextCreateDelete]_vars

\* Runs of create-record and delete-record requests after which getNextCounter
\* is called as getNextControlNumbers calls it: office-wide with section null,
\* or for a section.
\* The (scope, section) pairs getNextControlNumbers passes to getNextCounter.
CounterCalls ==
  {<<"MC", NULL>>} \cup {<<"SECTION", section>> : section \in Sections}

InitBackends == EmptyStore /\ budget = MaxBackendOps

NextBackends ==
  \/ \E section \in Sections, dateReceived \in Dates :
       CreateRecord(section, dateReceived, "none")
  \/ \E id \in 1..MaxId : DeleteRecord(id, "none")
  \/ \E call \in CounterCalls, dateReceived \in Dates :
       CompareBackends(call[1], call[2], dateReceived)

SpecBackends == InitBackends /\ [][NextBackends]_vars

\* Runs of allocations and create-record requests with manual resets.
InitResetEffect == EmptyStore /\ budget = MaxResetEffectOps

NextResetEffect ==
  \/ \E section \in Sections, dateReceived \in Dates :
       AllocateNext(section, dateReceived)
  \/ \E section \in Sections, dateReceived \in Dates :
       CreateRecord(section, dateReceived, "none")
  \/ \E section \in Sections, dateReceived \in Dates :
       ResetCounters(section, dateReceived)

SpecResetEffect == InitResetEffect /\ [][NextResetEffect]_vars

\* Runs of create-record requests, with validations in between.
InitCreateValidate == EmptyStore /\ budget = MaxCreateValidateOps

NextCreateValidate ==
  \/ \E section \in Sections, dateReceived \in Dates :
       CreateRecord(section, dateReceived, "none")
  \/ \E section \in Sections, dateReceived \in Dates :
       ValidateControlNumbers(section, dateReceived)

SpecCreateValidate == InitCreateValidate /\ [][NextCreateValidate]_vars

\* Runs in which an await of a create or delete request may throw.
CreateFailures == {"none", "section", "record"}
RepairFailures == {"none", "select", "updateSection", "validate"}

InitFaults == EmptyStore /\ budget = MaxFaultOps

NextFaults ==
  \/ \E section \in Sections, dateReceived \in Dates :
       AllocateNext(section, dateReceived)
  \/ \E section \in Sections, dateReceived \in Dates, failed \in CreateFailures :
       CreateRecord(section, dateReceived, failed)
  \/ \E id \in 1..MaxId, failed \in RepairFailures : DeleteRecord(id, failed)

SpecFaults == InitFaults /\ [][NextFaults]_vars

\* Runs in which previews and validations come between the requests that write.
InitReads == EmptyStore /\ budget = MaxReadOps

NextReads ==
  \/ \E section \in Sections, dateReceived \in Dates :
       AllocateNext(section, dateReceived)
  \/ \E section \in Sections, dateReceived \in Dates :
       CreateRecord(section, dateReceived, "none")
  \/ \E id \in 1..MaxId : DeleteRecord(id, "none")
  \/ \E section \in Sections, dateReceived \in Dates :
       PreviewNext(section, dateReceived)
  \/ \E section \in Sections, dateReceived \in Dates :
       ValidateControlNumbers(section, dateReceived)

SpecReads == InitReads /\ [][NextReads]_vars

\* Runs whose requests may lack the section, the dateReceived or both.
InitInputs == EmptyStore /\ budget = MaxInputOps

NextInputs ==
  \/ \E section \in Sections \cup {NULL}, dateReceived \in Dates \cup {NULL} :
       AllocateNext(section, dateReceived)
  \/ \E section \in Sections \cup {NULL}, dateReceived \in Dates \cup {NULL} :
       PreviewNext(section, dateReceived)
  \/ \E section \in Sections \cup {NULL}, dateReceived \in Dates \cup {NULL} :
       CreateRecord(section, dateReceived, "none")
  \/ \E section \in Sections \cup {NULL}, dateReceived \in Dates \cup {NULL} :
       ValidateControlNumbers(section, dateReceived)
  \/ \E section \in Sections \cup {NULL}, dateReceived \in Dates \cup {NULL} :
       ResetCounters(section, dateReceived)

SpecInputs == InitInputs /\ [][NextInputs]_vars

\* Runs of create-record and update requests.
InitUpdate == EmptyStore /\ budget = MaxUpdateOps

NextUpdate ==
  \/ \E section \in Sections, dateReceived \in Dates :
       CreateRecord(section, dateReceived, "none")
  \/ \E id \in 1..MaxId, payload \in Payloads : UpdateRecord(id, payload)

SpecUpdate == InitUpdate /\ [][NextUpdate]_vars

\* The validator on stores whose records of (INVES, 2026-02-18) carry any
\* office-wide and section sequence numbers (PUT /records/:id can store any),
\* with the counter rows as a reset leaves them.
ValidatedRecord(id, mcSeq, sectionSeq) ==
  [id |-> id, section |-> "INVES", dateReceived |-> "2026-02-18",
   mcCtrlNo |-> formatCtrlNo(PREFIX, NULL, Chars("2026-02-18"), mcSeq),
   sectionCtrlNo |-> formatCtrlNo(PREFIX, "INVES", Chars("2026-02-18"), sectionSeq)]

InitValidate ==
  \E k \in 0..MaxValidateIds :
    \E numbers \in [1..k -> (1..MaxValidateSeq) \X (1..MaxValidateSeq)] :
      /\ records = {ValidatedRecord(id, numbers[id][1], numbers[id][2]) : id \in 1..k}
      /\ counters = resetCountersForSection(
                      <<newCounterRow("MC", NULL, "2026-02-18"),
                        newCounterRow("SECTION", "INVES", "2026-02-18")>>,
                      records, "INVES", "2026-02-18").counters
      /\ nextId = k + 1
      /\ lastOp = NoOp
      /\ prevOp = NoOp
      /\ run = NoRun
      /\ emptied = {}
      /\ procs = [p \in Procs |-> IdleProc]
      /\ budget = 1

NextValidate ==
  \E section \in Sections, dateReceived \in Dates :
    ValidateControlNumbers(section, dateReceived)

SpecValidate == InitValidate /\ [][NextValidate]_vars

\* ------------------------------------- requests whose storage steps interleave
\* Every await of getNextControlNumbers and getNextCounter is one step; between
\* two steps of a handler the other handlers may run.
InFlight(p) == procs[p].pc \notin {"idle", "done"}

SequentialUnchanged == UNCHANGED <<lastOp, prevOp, run, emptied>>

\* A handler takes a POST /control-numbers/next or a POST /records and calls
\* getNextCounter({ scope: 'MC', section: null, dateReceived }).
StartRequest(p, op, section, dateReceived) ==
  /\ ~InFlight(p)
  /\ budget > 0
  /\ BelowCap(section)
  /\ op = "create" => nextId <= MaxId
  /\ budget' = budget - 1
  /\ procs' = [q \in Procs |->
       IF q = p
       THEN [IdleProc EXCEPT !.pc = "select", !.op = op, !.reqSection = section,
                             !.scope = "MC", !.section = NULL,
                             !.dateReceived = dateReceived,
                             !.concurrent = {r \in Procs : InFlight(r)}]
       ELSE IF InFlight(q)
       THEN [procs[q] EXCEPT !.concurrent = @ \cup {p}]
       ELSE procs[q]]
  /\ UNCHANGED <<records, counters, nextId>>
  /\ SequentialUnchanged

\* const existing = await getSqlite('SELECT * FROM counters ...')
SelectCounterStep(p) ==
  /\ procs[p].pc = "select"
  /\ LET me == procs[p]
         id == selectCounter(counters, me.scope, me.section)
     IN procs' = [procs EXCEPT ![p] =
          [me EXCEPT !.existing = id,
                     !.currentNumber = IF id = 0 THEN 0 ELSE counters[id].currentNumber,
                     !.lastDateUsed = IF id = 0 THEN NULL ELSE counters[id].lastDateUsed,
                     !.pc = IF verifyCounter(counters, id, me.section, me.dateReceived)
                            THEN "records"
                            ELSE IF id = 0 THEN "insert" ELSE "update"]]
  /\ UNCHANGED <<records, counters, nextId, budget>>
  /\ SequentialUnchanged

\* const records = await allSqlite('SELECT mcCtrlNo, sectionCtrlNo FROM records ...')
SelectRecordsStep(p) ==
  /\ procs[p].pc = "records"
  /\ LET me == procs[p]
         highest == highestActual(records, me.scope, me.section, me.dateReceived)
     IN procs' = [procs EXCEPT ![p] =
          [me EXCEPT !.highestActual = highest,
                     !.pc = IF me.currentNumber > highest THEN "heal" ELSE "update"]]
  /\ UNCHANGED <<records, counters, nextId, budget>>
  /\ SequentialUnchanged

\* The handler's locals after getNextCounter returned seq.
Returned(me, seq) ==
  IF me.scope = "MC"
  THEN [me EXCEPT !.mcSeq = seq, !.scope = "SECTION", !.section = me.reqSection,
                  !.pc = "select"]
  ELSE [me EXCEPT !.sectionSeq = seq,
                  !.pc = IF me.op = "create" THEN "record" ELSE "done"]

\* await runSqlite('UPDATE counters SET currentNumber = ? WHERE id = ?', [highestActual, existing.id])
HealStep(p) ==
  /\ procs[p].pc = "heal"
  /\ LET me == procs[p]
     IN /\ counters' = [counters EXCEPT ![me.existing].currentNumber = me.highestActual]
        /\ procs' = [procs EXCEPT ![p] = Returned(me, me.highestActual + 1)]
  /\ UNCHANGED <<records, nextId, budget>>
  /\ SequentialUnchanged

\* await runSqlite('INSERT INTO counters (...) VALUES (?, ?, 1, ?)')
InsertStep(p) ==
  /\ procs[p].pc = "insert"
  /\ LET me == procs[p]
     IN /\ counters' = Append(counters,
                             newCounterRow(me.scope, me.section, me.dateReceived))
        /\ procs' = [procs EXCEPT ![p] = Returned(me, 1)]
  /\ UNCHANGED <<records, nextId, budget>>
  /\ SequentialUnchanged

\* await runSqlite('UPDATE counters SET currentNumber = ?, lastDateUsed = ? WHERE id = ?')
UpdateStep(p) ==
  /\ procs[p].pc = "update"
  /\ LET me == procs[p]
         dateChanged == me.dateReceived # NULL /\ me.lastDateUsed # me.dateReceived
         next == baseNumber(dateChanged, me.currentNumber) + 1
     IN /\ counters' = [counters EXCEPT ![me.existing].currentNumber = next,
                                        ![me.existing].lastDateUsed = me.dateReceived]
        /\ procs' = [procs EXCEPT ![p] = Returned(me, next)]
  /\ UNCHANGED <<records, nextId, budget>>
  /\ SequentialUnchanged

\* const record = await db.createRecord({ ...payload, mcCtrlNo, sectionCtrlNo })
InsertRecordStep(p) ==
  /\ procs[p].pc = "record"
  /\ LET me == procs[p]
     IN records' = records \cup
          {[id |-> nextId, section |-> me.reqSection, dateReceived |-> me.dateReceived,
            mcCtrlNo |-> formatCtrlNo(PREFIX, NULL, Chars(me.dateReceived), me.mcSeq),
            sectionCtrlNo |-> formatCtrlNo(PREFIX, me.reqSection,
                                           Chars(me.dateReceived), me.sectionSeq)]}
  /\ nextId' = nextId + 1
  /\ procs' = [procs EXCEPT ![p].pc = "done"]
  /\ UNCHANGED <<counters, budget>>
  /\ SequentialUnchanged

NextConc ==
  \E p \in Procs :
    \/ \E op \in {"allocate", "create"}, section \in Sections, dateReceived \in Dates :
         StartRequest(p, op, section, dateReceived)
    \/ SelectCounterStep(p)
    \/ SelectRecordsStep(p)
    \/ HealStep(p)
    \/ InsertStep(p)
    \/ UpdateStep(p)
    \/ InsertRecordStep(p)

InitConc == EmptyStore /\ budget = MaxConcOps

SpecConc == InitConc /\ [][NextConc]_vars

\* ------------------- delete requests interleaved with create-record requests
\* The store after the create-record requests for the partitions listed in
\* creates, served one after the other from the empty store.
RECURSIVE createdStore(_)
createdStore(creates) ==
  IF Len(creates) = 0 THEN [records |-> {}, counters |-> <<>>]
  ELSE LET before == createdStore(SubSeq(creates, 1, Len(creates) - 1))
           section == creates[Len(creates)][1]
           dateReceived == creates[Len(creates)][2]
           got == getNextControlNumbers(before.counters, before.records,
                                        section, dateReceived, FALSE)
       IN [records |-> before.records \cup
             {[id |-> Len(creates), section |-> section,
               dateReceived |-> dateReceived,
               mcCtrlNo |-> got.mcCtrlNo, sectionCtrlNo |-> got.sectionCtrlNo]},
           counters |-> got.counters]

\* The store with the records and counters of store, and nothing served yet.
StartsFrom(store) ==
  /\ records = store.records
  /\ counters = store.counters
  /\ nextId = Cardinality(store.records) + 1
  /\ lastOp = NoOp
  /\ prevOp = NoOp
  /\ run = NoRun
  /\ emptied = {}
  /\ procs = [p \in Procs |-> IdleProc]

\* The handlers in flight once handler p has taken a request with these locals.
Begin(p, locals) ==
  [q \in Procs |->
     IF q = p THEN [locals EXCEPT !.concurrent = {r \in Procs : InFlight(r)}]
     ELSE IF InFlight(q) THEN [procs[q] EXCEPT !.concurrent = @ \cup {p}]
     ELSE procs[q]]

\* DELETE /records/:id: const record = await db.getRecord(req.params.id), and
\* the section and dateReceived stored before deleting.
StartDelete(p, id) ==
  /\ ~InFlight(p)
  /\ budget > 0
  /\ budget' = budget - 1
  /\ \E record \in records :
       /\ record.id = id
       /\ procs' = Begin(p, [IdleProc EXCEPT !.pc = "delete", !.op = "delete",
                                             !.id = id,
                                             !.reqSection = record.section,
                                             !.dateReceived = record.dateReceived])
  /\ UNCHANGED <<records, counters, nextId>>
  /\ SequentialUnchanged

\* await db.deleteRecord(req.params.id)
DeleteStep(p) ==
  /\ procs[p].pc = "delete"
  /\ records' = deleteRecord(records, procs[p].id)
  /\ procs' = [procs EXCEPT ![p].pc = "resetSelect"]
  /\ UNCHANGED <<counters, nextId, budget>>
  /\ SequentialUnchanged

\* resetCountersForSection: records = await allSqlite('SELECT mcCtrlNo,
\* sectionCtrlNo FROM records WHERE section = ? AND dateReceived = ? ...'), and
\* the forEach that extracts highestMC and highestSection.
ResetSelectStep(p) ==
  /\ procs[p].pc = "resetSelect"
  /\ LET me == procs[p]
         h == highestOf(records, me.reqSection, me.dateReceived)
     IN procs' = [procs EXCEPT ![p] =
          [me EXCEPT !.highestMC = h.highestMC,
                     !.highestSection = h.highestSection,
                     !.pc = "resetMC"]]
  /\ UNCHANGED <<records, counters, nextId, budget>>
  /\ SequentialUnchanged

\* An UPDATE that adds the value to currentNumber.
setCurrentNumberAdding(ctrs, scope, section, value) ==
  [i \in 1..Len(ctrs) |->
     IF ctrs[i].scope = scope /\ ctrs[i].section = section
     THEN [ctrs[i] EXCEPT !.currentNumber = @ + value]
     ELSE ctrs[i]]

\* UPDATE counters SET currentNumber = ? WHERE scope = ? AND section IS ?
setCurrentNumber(ctrs, scope, section, value) ==
  [i \in 1..Len(ctrs) |->
     IF ctrs[i].scope = scope /\ ctrs[i].section = section
     THEN [ctrs[i] EXCEPT !.currentNumber = value]
     ELSE ctrs[i]]

\* await runSqlite('UPDATE counters SET currentNumber = ? WHERE scope = ? AND
\* section IS ?;', [highestMC, 'MC', null])
ResetUpdateMCStep(p) ==
  /\ procs[p].pc = "resetMC"
  /\ counters' = setCurrentNumber(counters, "MC", NULL, procs[p].highestMC)
  /\ procs' = [procs EXCEPT ![p].pc = "resetSection"]
  /\ UNCHANGED <<records, nextId, budget>>
  /\ SequentialUnchanged

\* await runSqlite('UPDATE counters SET currentNumber = ? WHERE scope = ? AND
\* section = ?;', [highestSection, 'SECTION', section]).  The validation that
\* follows in a delete request reads the records and writes nothing.
ResetUpdateSectionStep(p) ==
  /\ procs[p].pc = "resetSection"
  /\ counters' = setCurrentNumber(counters, "SECTION", procs[p].reqSection,
                                  procs[p].highestSection)
  /\ procs' = [procs EXCEPT ![p].pc = "done"]
  /\ UNCHANGED <<records, nextId, budget>>
  /\ SequentialUnchanged

\* A POST /control-numbers/next served while no other request is in flight.
AllocateWhenQuiet(section, dateReceived) ==
  /\ \A p \in Procs : ~InFlight(p)
  /\ AllocateNext(section, dateReceived)

\* Stores holding up to MaxRaceRecords records of (INVES, 2026-02-18), created
\* one after the other.
InitRace ==
  /\ \E k \in 0..MaxRaceRecords :
       StartsFrom(createdStore([i \in 1..k |-> <<"INVES", "2026-02-18">>]))
  /\ budget = MaxRaceOps

NextRace ==
  \/ \E p \in Procs, section \in Sections, dateReceived \in Dates :
       StartRequest(p, "create", section, dateReceived)
  \/ \E p \in Procs, id \in 1..MaxId : StartDelete(p, id)
  \/ \E p \in Procs : SelectCounterStep(p)
  \/ \E p \in Procs : SelectRecordsStep(p)
  \/ \E p \in Procs : HealStep(p)
  \/ \E p \in Procs : InsertStep(p)
  \/ \E p \in Procs : UpdateStep(p)
  \/ \E p \in Procs : InsertRecordStep(p)
  \/ \E p \in Procs : DeleteStep(p)
  \/ \E p \in Procs : ResetSelectStep(p)
  \/ \E p \in Procs : ResetUpdateMCStep(p)
  \/ \E p \in Procs : ResetUpdateSectionStep(p)
  \/ \E section \in Sections, dateReceived \in Dates :
       AllocateWhenQuiet(section, dateReceived)

SpecRace == InitRace /\ [][NextRace]_vars

\* ------------------------------------------ reset requests that interleave
\* POST /records/reset-counters: the handler calls
\* db.resetCountersForSection(section, dateReceived).
StartReset(p, section, dateReceived) ==
  /\ ~InFlight(p)
  /\ budget > 0
  /\ budget' = budget - 1
  /\ procs' = Begin(p, [IdleProc EXCEPT !.pc = "resetSelect", !.op = "reset",
                                        !.reqSection = section,
                                        !.dateReceived = dateReceived,
                                        !.startCounters = counters])
  /\ UNCHANGED <<records, counters, nextId>>
  /\ SequentialUnchanged

\* Stores holding up to MaxResetRecords records of 2026-02-18, created one
\* after the other for any sections.
InitResets ==
  /\ \E k \in 0..MaxResetRecords :
       \E sections \in [1..k -> Sections] :
         StartsFrom(createdStore([i \in 1..k |-> <<sections[i], "2026-02-18">>]))
  /\ budget = MaxResetOps

NextResets ==
  \/ \E p \in Procs, section \in Sections, dateReceived \in Dates :
       StartReset(p, section, dateReceived)
  \/ \E p \in Procs : ResetSelectStep(p)
  \/ \E p \in Procs : ResetUpdateMCStep(p)
  \/ \E p \in Procs : ResetUpdateSectionStep(p)

SpecResets == InitResets /\ [][NextResets]_vars
\* ---------------------------------------------------------------- claims
\* Table records as the last request found it (after a create or an allocate).
PreRecords ==
  IF lastOp.op = "create" THEN {r \in records : r.id # lastOp.id} ELSE records

\* The record the last create request stored.
Created == CHOOSE r \in records : r.id = lastOp.id

\* Highest section sequence embedded in the records of (section, dateReceived).
SectionMax(recs, section, dateReceived) ==
  Max0({matchTrailingSeq(r.sectionCtrlNo) :
          r \in selectRecords(recs, section, dateReceived)} \cap Nat)

\* Highest office-wide sequence embedded in the records of dateReceived,
\* whatever their section.
OfficeMax(recs, dateReceived) ==
  Max0({matchTrailingSeq(r.mcCtrlNo) :
          r \in {x \in recs : x.dateReceived = dateReceived}} \cap Nat)

Allocated == lastOp.op \in {"allocate", "create"}

\* C1: after any sequence of create-record and delete-record requests, no two
\* stored records of the same (section, dateReceived) carry the same
\* sectionCtrlNo.
C1_SectionScopeUnique ==
  \A r1, r2 \in records :
    (r1.id # r2.id /\ r1.section = r2.section
       /\ r1.dateReceived = r2.dateReceived)
    => r1.sectionCtrlNo # r2.sectionCtrlNo

\* C2: after any sequence of create-record and delete-record requests over
\* several sections, no two stored records of the same dateReceived carry the
\* same mcCtrlNo.
C2_OfficeScopeUnique ==
  \A r1, r2 \in records :
    (r1.id # r2.id /\ r1.dateReceived = r2.dateReceived)
    => r1.mcCtrlNo # r2.mcCtrlNo

\* C3: two requests whose storage steps interleave never get the same
\* sequence number from getNextCounter for the same (scope, section,
\* dateReceived).
C3_InterleavedAllocationsDiffer ==
  \A p, q \in Procs :
    (p # q /\ q \in procs[p].concurrent /\ p \in procs[q].concurrent
       /\ procs[p].dateReceived = procs[q].dateReceived)
    => /\ (procs[p].mcSeq # 0 /\ procs[q].mcSeq # 0)
            => procs[p].mcSeq # procs[q].mcSeq
       /\ (procs[p].reqSection = procs[q].reqSection
             /\ procs[p].sectionSeq # 0 /\ procs[q].sectionSeq # 0)
            => procs[p].sectionSeq # procs[q].sectionSeq

\* C4: from the empty store, the i-th of N consecutive POST /control-numbers/next
\* requests for one (section, dateReceived) returns i in both scopes.
C4_SequentialAllocation ==
  run.kind = "allocate"
  => \A i \in 1..Len(run.allocs) : run.allocs[i] = <<i, i>>

\* C5: from the empty store, N consecutive create-record requests for one
\* (section, dateReceived) store records 1..N whose section and office-wide
\* control numbers end in -01, -02, ... in creation order.
C5_SequentialCreation ==
  run.kind = "create"
  => /\ {r.id : r \in records} = 1..(nextId - 1)
     /\ \A r \in records :
          /\ r.section = run.section
          /\ r.dateReceived = run.dateReceived
          /\ matchTrailingSeq(r.sectionCtrlNo) = r.id
          /\ matchTrailingSeq(r.mcCtrlNo) = r.id
          /\ SubSeq(r.sectionCtrlNo, Len(r.sectionCtrlNo) - 2, Len(r.sectionCtrlNo))
               = <<"-", "0", DigitChars[r.id + 1]>>
          /\ SubSeq(r.mcCtrlNo, Len(r.mcCtrlNo) - 2, Len(r.mcCtrlNo))
               = <<"-", "0", DigitChars[r.id + 1]>>

C5_Witness ==
  /\ run.kind = "create"
  /\ Cardinality(records) >= 3

\* C6: when the counter row of (scope, section) holds a lastDateUsed other than
\* the requested date, getNextCounter returns 1 and leaves lastDateUsed at the
\* requested date, whatever currentNumber was.
C6_DateRollover ==
  Allocated
  => /\ (lastOp.preMC # NoRow /\ lastOp.preMC.lastDateUsed # lastOp.dateReceived)
          => /\ lastOp.mcSeq = 1
             /\ rowOf(counters, "MC", NULL).lastDateUsed = lastOp.dateReceived
     /\ (lastOp.preSection # NoRow
           /\ lastOp.preSection.lastDateUsed # lastOp.dateReceived)
          => /\ lastOp.sectionSeq = 1
             /\ rowOf(counters, "SECTION", lastOp.section).lastDateUsed
                  = lastOp.dateReceived

C6_Witness ==
  /\ Allocated
  /\ lastOp.preMC # NoRow
  /\ lastOp.preMC.lastDateUsed # lastOp.dateReceived
  /\ lastOp.preMC.currentNumber >= 2
  /\ lastOp.preSection # NoRow
  /\ lastOp.preSection.lastDateUsed # lastOp.dateReceived
  /\ lastOp.preSection.currentNumber >= 2

\* C7: when the counter row's lastDateUsed is the requested date and its
\* currentNumber exceeds the highest sequence m embedded in the stored records
\* of that scope, getNextCounter returns m + 1.
C7_SelfHealing ==
  Allocated
  => /\ (lastOp.preMC.lastDateUsed = lastOp.dateReceived
           /\ lastOp.preMC.currentNumber > OfficeMax(PreRecords, lastOp.dateReceived))
          => lastOp.mcSeq = OfficeMax(PreRecords, lastOp.dateReceived) + 1
     /\ (lastOp.preSection.lastDateUsed = lastOp.dateReceived
           /\ lastOp.preSection.currentNumber
                > SectionMax(PreRecords, lastOp.section, lastOp.dateReceived))
          => lastOp.sectionSeq
               = SectionMax(PreRecords, lastOp.section, lastOp.dateReceived) + 1

\* C8: the create-record request that follows a delete request on the same
\* (section, dateReceived) gets section sequence (highest section sequence
\* among the remaining records) + 1.
C8_NextAfterDelete ==
  (lastOp.op = "create" /\ prevOp.op = "delete"
     /\ prevOp.section = lastOp.section
     /\ prevOp.dateReceived = lastOp.dateReceived)
  => lastOp.sectionSeq
       = SectionMax(PreRecords, lastOp.section, lastOp.dateReceived) + 1

\* C9: once every record of a (section, dateReceived) has been deleted through
\* delete requests, the next record created for it gets section control number
\* ...-01 and office-wide control number ...-01.  The office-wide part is
\* required only where no record of that dateReceived, of any section, is
\* stored when the record is created: there no record holds ...-01.
C9_RestartAfterAllDeleted ==
  (lastOp.op = "create" /\ lastOp.wasEmptied)
  => /\ lastOp.sectionSeq = 1
     /\ SubSeq(Created.sectionCtrlNo, Len(Created.sectionCtrlNo) - 2,
               Len(Created.sectionCtrlNo)) = <<"-", "0", "1">>
     /\ ({r \in PreRecords : r.dateReceived = lastOp.dateReceived} = {})
          => /\ lastOp.mcSeq = 1
             /\ SubSeq(Created.mcCtrlNo, Len(Created.mcCtrlNo) - 2,
                       Len(Created.mcCtrlNo)) = <<"-", "0", "1">>

\* C10: a reset of (section, dateReceived) that directly follows a reset of the
\* same (section, dateReceived), on its own or as the repair of a delete request,
\* returns the same maxima and changes no counter row.
C10_ResetIdempotent ==
  (lastOp.op = "reset" /\ prevOp.op \in {"reset", "delete"}
     /\ prevOp.section = lastOp.section
     /\ prevOp.dateReceived = lastOp.dateReceived)
  => /\ lastOp.highestMC = prevOp.highestMC
     /\ lastOp.highestSection = prevOp.highestSection
     /\ ~lastOp.countersChanged

C10_Witness ==
  /\ lastOp.op = "reset"
  /\ prevOp.op = "reset"
  /\ prevOp.section = lastOp.section
  /\ prevOp.dateReceived = lastOp.dateReceived
  /\ lastOp.highestSection >= 1
  /\ lastOp.highestMC >= 1
\* C11: once a delete request for a stored record has run, the record is gone
\* and the request answers ok, whether its reset and validation succeeded or
\* threw; a failure of the repair only adds a warning.
C11_DeleteIndependentOfRepair ==
  lastOp.op = "delete"
  => /\ \A r \in records : r.id # lastOp.id
     /\ lastOp.ok
     /\ lastOp.warning <=> (lastOp.failed # "none")

C11_Witness ==
  /\ lastOp.op = "delete"
  /\ lastOp.failed = "updateSection"
  /\ lastOp.countersChanged
  /\ records # {}
  /\ lastOp.warning

\* C12: after any sequence of create-record and delete-record requests, every
\* counter row's currentNumber is the highest sequence number embedded in the
\* stored control numbers of its scope for the date lastDateUsed (section row:
\* the records of that section and date; office-wide row: the records of every
\* section for that date), 0 when there are none.
C12_CounterInvariant ==
  \A i \in 1..Len(counters) :
    counters[i].currentNumber =
      IF counters[i].scope = "MC"
      THEN OfficeMax(records, counters[i].lastDateUsed)
      ELSE SectionMax(records, counters[i].section, counters[i].lastDateUsed)

\* C13: the numbers a preview returns are the numbers the allocation that
\* directly follows it for the same (section, dateReceived) returns, in both
\* scopes.
C13_PreviewEqualsCommit ==
  (Allocated /\ prevOp.op = "preview"
     /\ prevOp.section = lastOp.section
     /\ prevOp.dateReceived = lastOp.dateReceived)
  => /\ lastOp.mcSeq = prevOp.mcSeq
     /\ lastOp.sectionSeq = prevOp.sectionSeq

\* C14: a preview and a validation leave every counter row and every record
\* as they were, also when the counter rows asked for do not exist yet.
C14_ReadOnly ==
  lastOp.op \in {"preview", "validate"}
  => /\ ~lastOp.countersChanged
     /\ ~lastOp.recordsChanged

C14_Witness ==
  /\ lastOp.op = "preview"
  /\ lastOp.preSection = NoRow
  /\ lastOp.preMC # NoRow
  /\ records # {}

\* The records of the partition the last request named.
Partition == selectRecords(records, lastOp.section, lastOp.dateReceived)

\* The control number of record r in a scope.
CtrlNoOf(r, type) == IF type = "MC" THEN r.mcCtrlNo ELSE r.sectionCtrlNo

\* C15: for each scope and each control-number string carried by k >= 2
\* records of the partition, the validation reports exactly one duplicate entry
\* for that string and scope, and the entry names the ids of all k records; a
\* string carried by one record has no duplicate entry.
C15_DuplicateDetection ==
  lastOp.op = "validate"
  => \A type \in {"MC", "SECTION"} :
       \A r \in Partition :
         LET holders == {x.id : x \in {y \in Partition :
                                         CtrlNoOf(y, type) = CtrlNoOf(r, type)}}
             entries == {i \in 1..Len(lastOp.duplicates) :
                           /\ lastOp.duplicates[i].type = type
                           /\ lastOp.duplicates[i].controlNumber = CtrlNoOf(r, type)}
         IN IF Cardinality(holders) >= 2
            THEN /\ Cardinality(entries) = 1
                 /\ {lastOp.duplicates[i].recordId : i \in entries} = holders
            ELSE entries = {}

\* C16: for each scope, with S the sequence numbers present in the partition,
\* the validation reports exactly one issue for every integer that lies
\* strictly between two adjacent elements of sorted S and no other issue;
\* hasProblems holds exactly when duplicates or issues is non-empty.
C16_GapDetection ==
  lastOp.op = "validate"
  => /\ \A type \in {"MC", "SECTION"} :
          LET S == {matchTrailingSeq(CtrlNoOf(r, type)) : r \in Partition}
          IN \A n \in 0..(MaxValidateSeq + 1) :
               Cardinality({i \in 1..Len(lastOp.issues) :
                              /\ lastOp.issues[i].type = type
                              /\ lastOp.issues[i].missing = n})
                 = IF n \notin S /\ (\E a \in S : a < n) /\ (\E b \in S : n < b)
                   THEN 1 ELSE 0
     /\ \A i \in 1..Len(lastOp.issues) :
          /\ lastOp.issues[i].type \in {"MC", "SECTION"}
          /\ lastOp.issues[i].missing \in 0..(MaxValidateSeq + 1)
     /\ lastOp.hasProblems
          <=> (Len(lastOp.duplicates) > 0 \/ Len(lastOp.issues) > 0)

C16_Witness ==
  /\ lastOp.op = "validate"
  /\ Cardinality(Partition) >= 2
  /\ \E i, j \in 1..Len(lastOp.issues) :
       lastOp.issues[i].type = "MC" /\ lastOp.issues[j].type = "SECTION"
  /\ lastOp.hasProblems

\* C17: after an update request, whatever its payload, the record carries the
\* office-wide and section control numbers it carried before the request.
C17_UpdatePreservesControlNumbers ==
  lastOp.op = "update"
  => \A r \in records :
       r.id = lastOp.id
       => /\ r.mcCtrlNo = lastOp.preMcCtrlNo
          /\ r.sectionCtrlNo = lastOp.preSectionCtrlNo

C19_AllocatePersistsWhatItReturns ==
  (Allocated /\ lastOp.status = 200 /\ lastOp.failed = "none")
  => /\ rowOf(counters, "MC", NULL)
          = [currentNumber |-> lastOp.mcSeq, lastDateUsed |-> lastOp.dateReceived]
     /\ rowOf(counters, "SECTION", lastOp.section)
          = [currentNumber |-> lastOp.sectionSeq,
             lastDateUsed |-> lastOp.dateReceived]

\* C20: when a create request advanced the office-wide counter, or both
\* counters, and then failed before its record was stored, the allocation that
\* follows it for the same (section, dateReceived), with no reset in between,
\* returns in each scope the highest sequence stored for that scope and date,
\* plus one.
C20_PartialApplicationRepaired ==
  (Allocated /\ lastOp.status = 200 /\ lastOp.failed = "none"
     /\ prevOp.op = "create" /\ prevOp.failed # "none"
     /\ prevOp.section = lastOp.section
     /\ prevOp.dateReceived = lastOp.dateReceived)
  => /\ lastOp.mcSeq = OfficeMax(PreRecords, lastOp.dateReceived) + 1
     /\ lastOp.sectionSeq
          = SectionMax(PreRecords, lastOp.section, lastOp.dateReceived) + 1

\* C21: in every state, also one reached by first allocations whose storage
\* steps interleave, table counters holds at most one row for each
\* (scope, section).
C21_OneRowPerScopeSection ==
  \A i, j \in 1..Len(counters) :
    (counters[i].scope = counters[j].scope
       /\ counters[i].section = counters[j].section)
    => i = j

\* A delete request p and a create-record request q for one (section,
\* dateReceived) whose storage steps interleaved, both served.
Raced(p, q) ==
  /\ procs[p].op = "delete" /\ procs[p].pc = "done"
  /\ procs[q].op = "create" /\ procs[q].pc = "done"
  /\ q \in procs[p].concurrent /\ p \in procs[q].concurrent
  /\ procs[p].reqSection = procs[q].reqSection
  /\ procs[p].dateReceived = procs[q].dateReceived

\* C22: after a delete request and a create-record request for the same
\* (section, dateReceived) whose storage steps interleaved, no two stored
\* records of that partition carry the same section control number, and the
\* allocation served next for that partition does not return a section
\* sequence number a stored record of the partition carries.
C22_DeleteRacesCreate ==
  \A p, q \in Procs :
    Raced(p, q)
    => LET stored == selectRecords(records, procs[p].reqSection,
                                   procs[p].dateReceived)
       IN /\ \A r1, r2 \in stored :
               r1.id # r2.id => r1.sectionCtrlNo # r2.sectionCtrlNo
          /\ (lastOp.op = "allocate"
                /\ lastOp.section = procs[p].reqSection
                /\ lastOp.dateReceived = procs[p].dateReceived)
             => \A r \in stored :
                  matchTrailingSeq(r.sectionCtrlNo) # lastOp.sectionSeq

\* Two reset requests p and q for one (section, dateReceived) whose storage
\* steps interleaved, both served, and no other request served in the run.
ResetTwice(p, q) ==
  /\ p # q
  /\ procs[p].op = "reset" /\ procs[p].pc = "done"
  /\ procs[q].op = "reset" /\ procs[q].pc = "done"
  /\ q \in procs[p].concurrent /\ p \in procs[q].concurrent
  /\ procs[p].reqSection = procs[q].reqSection
  /\ procs[p].dateReceived = procs[q].dateReceived
  /\ MaxResetOps - budget = 2

\* C23: two resets of one (section, dateReceived) whose reads and writes
\* interleave, with no record changed in between, return the same maxima, and
\* leave table counters as one reset run alone on the table either of them
\* found would leave it.
C23_ResetConcurrentWithItself ==
  \A p, q \in Procs :
    ResetTwice(p, q)
    => /\ procs[p].highestMC = procs[q].highestMC
       /\ procs[p].highestSection = procs[q].highestSection
       /\ counters = resetCountersForSection(procs[p].startCounters, records,
                                             procs[p].reqSection,
                                             procs[p].dateReceived).counters
       /\ procs[p].highestMC
            = resetCountersForSection(procs[p].startCounters, records,
                                      procs[p].reqSection,
                                      procs[p].dateReceived).highestMC
       /\ procs[p].highestSection
            = resetCountersForSection(procs[p].startCounters, records,
                                      procs[p].reqSection,
                                      procs[p].dateReceived).highestSection

C23_Witness ==
  \E p, q \in Procs :
    /\ ResetTwice(p, q)
    /\ procs[p].highestMC >= 1
    /\ procs[p].highestSection >= 1
    /\ counters # procs[p].startCounters
    /\ counters # procs[q].startCounters

\* C24: for every store and every call of getNextCounter, the SQLite branch and
\* the PostgreSQL branch return the same sequence number and leave the counter
\* row of the call with the same currentNumber and lastDateUsed.
C24_BackendsAgree ==
  lastOp.op = "getNextCounter" => lastOp.sqlite = lastOp.postgres

\* C25: a reset of (section, dateReceived) sets currentNumber of the office-wide
\* row and of the row of that section to the highest office-wide and section
\* sequence numbers among the records of (section, dateReceived), 0 when there
\* are none, and returns them; it leaves lastDateUsed of every row, the rows
\* of the other sections and every record as they were.
C25_ResetEffect ==
  (lastOp.op = "reset" /\ lastOp.status = 200)
  => LET rows == selectRecords(records, lastOp.section, lastOp.dateReceived)
         maxMC == Max0({matchTrailingSeq(r.mcCtrlNo) : r \in rows} \cap Nat)
         maxSection == Max0({matchTrailingSeq(r.sectionCtrlNo) : r \in rows}
                            \cap Nat)
     IN /\ lastOp.highestMC = maxMC
        /\ lastOp.highestSection = maxSection
        /\ ~lastOp.recordsChanged
        /\ Len(counters) = Len(lastOp.preCounters)
        /\ \A i \in 1..Len(counters) :
             counters[i] =
               IF counters[i].scope = "MC"
               THEN [lastOp.preCounters[i] EXCEPT !.currentNumber = maxMC]
               ELSE IF counters[i].section = lastOp.section
               THEN [lastOp.preCounters[i] EXCEPT !.currentNumber = maxSection]
               ELSE lastOp.preCounters[i]

C25_Witness ==
  /\ lastOp.op = "reset"
  /\ lastOp.status = 200
  /\ lastOp.countersChanged
  /\ lastOp.highestMC >= 1
  /\ lastOp.highestSection >= 1
  /\ \E i \in 1..Len(counters) :
       counters[i].scope = "SECTION" /\ counters[i].section # lastOp.section

\* C26: when a delete request for a record of (section, D1) has run its reset
\* while the section row's lastDateUsed is another date D2, the allocation that
\* follows for (section, D2) returns the highest section sequence stored for
\* D2 plus one, and so no sequence a record of (section, D2) carries.
C26_ResetForAnotherDate ==
  (Allocated /\ prevOp.op = "delete"
     /\ prevOp.section = lastOp.section
     /\ prevOp.dateReceived # lastOp.dateReceived
     /\ lastOp.preSection.lastDateUsed = lastOp.dateReceived)
  => /\ lastOp.sectionSeq
          = SectionMax(PreRecords, lastOp.section, lastOp.dateReceived) + 1
     /\ \A r \in selectRecords(PreRecords, lastOp.section, lastOp.dateReceived) :
          matchTrailingSeq(r.sectionCtrlNo) # lastOp.sectionSeq

\* C27: when records of (section, D1) are stored and the counters have since
\* moved to another date, a create-record request for (section, D1) gets
\* neither a section nor an office-wide sequence number that a stored record of
\* (section, D1) carries.
C27_ReturnToEarlierDate ==
  (lastOp.op = "create" /\ lastOp.status = 200 /\ lastOp.failed = "none"
     /\ lastOp.preSection # NoRow
     /\ lastOp.preSection.lastDateUsed # lastOp.dateReceived)
  => \A r \in selectRecords(PreRecords, lastOp.section, lastOp.dateReceived) :
       /\ matchTrailingSeq(r.sectionCtrlNo) # lastOp.sectionSeq
       /\ matchTrailingSeq(r.mcCtrlNo) # lastOp.mcSeq

\* C28: after allocations that no create-record request used, the records
\* stored by the create-record requests that follow for the same (section,
\* dateReceived), one after the other, carry pairwise distinct section control
\* numbers.
C28_AbandonedAllocation ==
  run.kind = "abandoned"
  => \A r1, r2 \in selectRecords(records, run.section, run.dateReceived) :
       r1.id # r2.id => r1.sectionCtrlNo # r2.sectionCtrlNo

\* C29: when a validation of (section, dateReceived) answers hasProblems =
\* false, the section sequence numbers of the N records of the partition are
\* pairwise distinct and are exactly 1..N.
C29_CleanValidationMeansCleanPartition ==
  (lastOp.op = "validate" /\ lastOp.status = 200 /\ ~lastOp.hasProblems)
  => /\ \A r1, r2 \in Partition :
          r1.id # r2.id
          => matchTrailingSeq(r1.sectionCtrlNo) # matchTrailingSeq(r2.sectionCtrlNo)
     /\ {matchTrailingSeq(r.sectionCtrlNo) : r \in Partition}
          = 1..Cardinality(Partition)

\* C30: after create-record requests only, all for one date and spread over
\* the sections, a validation of any section for that date answers
\* hasProblems = false with no duplicate and no issue.
C30_NoFalseAlarms ==
  (lastOp.op = "validate" /\ lastOp.status = 200
     /\ \A r \in records : r.dateReceived = lastOp.dateReceived
     /\ \A i \in 1..Len(counters) :
          counters[i].lastDateUsed = lastOp.dateReceived)
  => /\ ~lastOp.hasProblems
     /\ lastOp.duplicates = <<>>
     /\ lastOp.issues = <<>>
====
